---- MODULE Spec2Model ----
(***************************************************************************)
(* Model of the PuzzleCanvas component (src/src/components/PuzzleCanvas.tsx)*)
(*                                                                         *)
(* JavaScript numbers are modelled as exact rationals <<n, d>> in lowest   *)
(* terms with d > 0, so that the divisions by the scale and by ROWS/COLS   *)
(* are computed as the code computes them, up to floating-point rounding.  *)
(* A value that may be null is a sequence of length 0 (null) or 1.         *)
(* Every handler is one atomic action: React dispatches the callbacks one  *)
(* at a time and re-renders between them, so each handler sees the state   *)
(* left by the previous one.  draw() writes to the canvas only and has no  *)
(* effect on the state; it is not modelled.                                *)
(* last, nEvents, nLoads, sinceLoad and grab are history variables: the    *)
(* last event with the state it was handled in, the number of events and   *)
(* of image loads so far, what happened since the latest image load, and   *)
(* what happened since the pointer-down that started the drag in progress. *)
(***************************************************************************)
EXTENDS Integers, Sequences, FiniteSets, TLC

VARIABLES pieces, image, draggedIndex, offsetRef, canvasSize, scaleRef,
          last, nEvents, nLoads, sinceLoad, grab

vars == <<pieces, image, draggedIndex, offsetRef, canvasSize, scaleRef,
          last, nEvents, nLoads, sinceLoad, grab>>

(***************************************************************************)
(* Bounds.  The source fixes ROWS = 25 and COLS = 40 (PuzzleCanvas.tsx:5-6);*)
(* the model checks a reduced grid, and no handler depends on the two      *)
(* values other than through the loops that build the tile sequence.       *)
(* MaxEvents bounds the number of events handled in a run (a dragged tile  *)
(* can be carried arbitrarily far otherwise), MaxLoads the number of times *)
(* img.onload runs: once per mount, and again when imageSrc changes.       *)
(***************************************************************************)
ROWS == 2
COLS == 2
MaxEvents == 4
MaxLoads == 2

SNAP_THRESHOLD == 20

(***************************************************************************)
(* Exact rational arithmetic standing for the JavaScript number operators. *)
(***************************************************************************)
Abs(n) == IF n < 0 THEN -n ELSE n

RECURSIVE GCD(_, _)
GCD(a, b) == IF b = 0 THEN a ELSE GCD(b, a % b)

Rat(n, d) ==
  LET s == IF d < 0 THEN -1 ELSE 1
      g == GCD(Abs(n), Abs(d))
  IN  <<(s * n) \div g, (s * d) \div g>>

Num(n) == <<n, 1>>

\* sums go through the least common denominator, which keeps the
\* intermediate integers small
RAdd(a, b) ==
  LET g == GCD(a[2], b[2])
  IN  Rat(a[1] * (b[2] \div g) + b[1] * (a[2] \div g), (a[2] \div g) * b[2])
RSub(a, b) == RAdd(a, <<-b[1], b[2]>>)
RMul(a, b) == Rat(a[1] * b[1], a[2] * b[2])
RDiv(a, b) == Rat(a[1] * b[2], a[2] * b[1])
RLt(a, b) == a[1] * b[2] < b[1] * a[2]
RLe(a, b) == ~RLt(b, a)
RMax(a, b) == IF RLt(a, b) THEN b ELSE a
RMin(a, b) == IF RLt(b, a) THEN b ELSE a

(***************************************************************************)
(* Inputs of the environment.                                              *)
(***************************************************************************)
\* the images that may finish loading (img.width, img.height)
Images == { [width |-> Num(80), height |-> Num(60)],
            [width |-> Num(100), height |-> Num(100)] }

\* window.innerWidth at the time the image loads
ScreenWidths == { 20, 80, 200 }

\* pointer positions relative to the canvas (clientX - rect.left, clientY - rect.top)
Points == { <<0, 0>>, <<60, 30>>, <<110, 40>> }

\* e.deltaY of a wheel event: up, none (horizontal wheel), down
DeltaYs == { -100, 0, 100 }

\* values Math.random() may return, all in [0, 1)
Rands == << Num(0), Rat(1, 4), Rat(1, 2), Rat(3, 4) >>

\* a stream of Math.random() results: the j-th draw (from 0) of stream <<a, b>>
RandomStreams == { <<0, 0>>, <<1, 1>> }
Random(rnd, j) == Rands[((rnd[1] + rnd[2] * j) % Len(Rands)) + 1]

null == << >>
Some(v) == << v >>

\* variant: the loops nested the other way round (column-major sequence)
InitializePieces_ColumnMajor(img, rnd) ==
  LET pieceWidth == RDiv(img.width, Num(COLS))
      pieceHeight == RDiv(img.height, Num(ROWS))
  IN  [ k \in 1..(ROWS * COLS) |->
          LET col == (k - 1) \div ROWS
              row == (k - 1) % ROWS
          IN  [ sx |-> RMul(Num(col), pieceWidth),
                sy |-> RMul(Num(row), pieceHeight),
                x |-> RMul(Random(rnd, 2 * (k - 1)), RSub(img.width, pieceWidth)),
                y |-> RMul(Random(rnd, 2 * (k - 1) + 1), RSub(img.height, pieceHeight)),
                width |-> pieceWidth,
                height |-> pieceHeight ] ]

\* variant: positions drawn over the whole image, not over the room a tile has
InitializePieces_WholeImage(img, rnd) ==
  LET pieceWidth == RDiv(img.width, Num(COLS))
      pieceHeight == RDiv(img.height, Num(ROWS))
  IN  [ k \in 1..(ROWS * COLS) |->
          LET row == (k - 1) \div COLS
              col == (k - 1) % COLS
          IN  [ sx |-> RMul(Num(col), pieceWidth),
                sy |-> RMul(Num(row), pieceHeight),
                x |-> RMul(Random(rnd, 2 * (k - 1)), img.width),
                y |-> RMul(Random(rnd, 2 * (k - 1) + 1), img.height),
                width |-> pieceWidth,
                height |-> pieceHeight ] ]

(***************************************************************************)
(* initializePieces: the row-major grid with random positions.             *)
(***************************************************************************)
InitializePieces(img, rnd) ==
  LET pieceWidth == RDiv(img.width, Num(COLS))
      pieceHeight == RDiv(img.height, Num(ROWS))
  IN  [ k \in 1..(ROWS * COLS) |->
          LET row == (k - 1) \div COLS
              col == (k - 1) % COLS
          IN  [ sx |-> RMul(Num(col), pieceWidth),
                sy |-> RMul(Num(row), pieceHeight),
                x |-> RMul(Random(rnd, 2 * (k - 1)), RSub(img.width, pieceWidth)),
                y |-> RMul(Random(rnd, 2 * (k - 1) + 1), RSub(img.height, pieceHeight)),
                width |-> pieceWidth,
                height |-> pieceHeight ] ]

\* variant: row and column exchanged in the solved position
SolvedPieces_Transposed(img) ==
  LET pieceWidth == RDiv(img.width, Num(COLS))
      pieceHeight == RDiv(img.height, Num(ROWS))
  IN  [ k \in 1..(ROWS * COLS) |->
          LET row == (k - 1) \div COLS
              col == (k - 1) % COLS
          IN  [ sx |-> RMul(Num(col), pieceWidth),
                sy |-> RMul(Num(row), pieceHeight),
                x |-> RMul(Num(row), pieceWidth),
                y |-> RMul(Num(col), pieceHeight),
                width |-> pieceWidth,
                height |-> pieceHeight ] ]

\* variant: the grid built one row short
SolvedPieces_OneRowShort(img) ==
  LET pieceWidth == RDiv(img.width, Num(COLS))
      pieceHeight == RDiv(img.height, Num(ROWS))
  IN  [ k \in 1..((ROWS - 1) * COLS) |->
          LET row == (k - 1) \div COLS
              col == (k - 1) % COLS
          IN  [ sx |-> RMul(Num(col), pieceWidth),
                sy |-> RMul(Num(row), pieceHeight),
                x |-> RMul(Num(col), pieceWidth),
                y |-> RMul(Num(row), pieceHeight),
                width |-> pieceWidth,
                height |-> pieceHeight ] ]

(***************************************************************************)
(* The loop of fixPuzzle: the row-major grid with every tile in place.     *)
(***************************************************************************)
SolvedPieces(img) ==
  LET pieceWidth == RDiv(img.width, Num(COLS))
      pieceHeight == RDiv(img.height, Num(ROWS))
  IN  [ k \in 1..(ROWS * COLS) |->
          LET row == (k - 1) \div COLS
              col == (k - 1) % COLS
          IN  [ sx |-> RMul(Num(col), pieceWidth),
                sy |-> RMul(Num(row), pieceHeight),
                x |-> RMul(Num(col), pieceWidth),
                y |-> RMul(Num(row), pieceHeight),
                width |-> pieceWidth,
                height |-> pieceHeight ] ]

(***************************************************************************)
(* getPieceAt: scan from the last tile to the first; indices are 0-based   *)
(* as in the source, pieces[i] of the source is ps[i + 1] here.            *)
(***************************************************************************)
Contains(p, scale, x, y) ==
  LET scaledX == RMul(p.x, scale)
      scaledY == RMul(p.y, scale)
      scaledW == RMul(p.width, scale)
      scaledH == RMul(p.height, scale)
  IN  /\ RLe(scaledX, x) /\ RLe(x, RAdd(scaledX, scaledW))
      /\ RLe(scaledY, y) /\ RLe(y, RAdd(scaledY, scaledH))

RECURSIVE ScanFrom(_, _, _, _, _)
ScanFrom(i, ps, scale, x, y) ==
  IF i < 0 THEN null
  ELSE IF Contains(ps[i + 1], scale, x, y) THEN Some(i)
  ELSE ScanFrom(i - 1, ps, scale, x, y)

\* variant: scan from the first tile to the last
RECURSIVE ScanUpFrom(_, _, _, _, _)
ScanUpFrom(i, ps, scale, x, y) ==
  IF i >= Len(ps) THEN null
  ELSE IF Contains(ps[i + 1], scale, x, y) THEN Some(i)
  ELSE ScanUpFrom(i + 1, ps, scale, x, y)

GetPieceAt_FirstTile(ps, scale, x, y) == ScanUpFrom(0, ps, scale, x, y)

GetPieceAt(ps, scale, x, y) == ScanFrom(Len(ps) - 1, ps, scale, x, y)

(***************************************************************************)
(* The snap test of handleMouseUp.  Math.sqrt(d2) < SNAP_THRESHOLD is      *)
(* compared on the squares, d2 < SNAP_THRESHOLD^2.                         *)
(***************************************************************************)
CorrectX(piece, scale) == RDiv(piece.sx, scale)
CorrectY(piece, scale) == RDiv(piece.sy, scale)

DistanceSq(ax, ay, bx, by) ==
  RAdd(RMul(RSub(ax, bx), RSub(ax, bx)), RMul(RSub(ay, by), RSub(ay, by)))

CloseEnough(piece, scale) ==
  RLt(DistanceSq(piece.x, piece.y, CorrectX(piece, scale), CorrectY(piece, scale)),
      Num(SNAP_THRESHOLD * SNAP_THRESHOLD))

(***************************************************************************)
(* The new scale of handleWheel.                                           *)
(***************************************************************************)
ZoomAmount(deltaY) == IF deltaY < 0 THEN Rat(1, 10) ELSE Rat(-1, 10)

\* variant: the upper clamp left out
NewScale_NoUpperClamp(scale, deltaY) ==
  RMax(Rat(1, 2), RAdd(scale, ZoomAmount(deltaY)))

NewScale(scale, deltaY) ==
  RMax(Rat(1, 2), RMin(Num(2), RAdd(scale, ZoomAmount(deltaY))))

(***************************************************************************)
(* History: the last event and the state it was handled in.                *)
(***************************************************************************)
Snapshot ==
  [ pieces |-> pieces, image |-> image, draggedIndex |-> draggedIndex,
    offsetRef |-> offsetRef, canvasSize |-> canvasSize, scaleRef |-> scaleRef,
    grab |-> grab ]

\* no drag has started, or the last one ended with a pointer-up
NoGrab ==
  [ pt |-> <<0, 0>>, pos |-> <<Num(0), Num(0)>>,
    wheeled |-> FALSE, rebuilt |-> FALSE, reloaded |-> FALSE ]

\* the pointer-down that picked up the tile being dragged: where the pointer
\* was, where the tile was, and whether a wheel event, a solve or scramble,
\* or an image load has come since
Grabbed(op, args) ==
  CASE op = "mouseDown" ->
         LET index == GetPieceAt(pieces, scaleRef, Num(args[1]), Num(args[2]))
         IN  IF index = null THEN grab
             ELSE [ pt |-> args,
                    pos |-> <<pieces[index[1] + 1].x, pieces[index[1] + 1].y>>,
                    wheeled |-> FALSE, rebuilt |-> FALSE, reloaded |-> FALSE ]
    [] op = "mouseUp" -> NoGrab
    [] op = "wheel" /\ draggedIndex # null -> [ grab EXCEPT !.wheeled = TRUE ]
    [] op \in { "fix", "messUp" } /\ draggedIndex # null ->
         [ grab EXCEPT !.rebuilt = TRUE ]
    [] op = "onload" /\ draggedIndex # null -> [ grab EXCEPT !.reloaded = TRUE ]
    [] OTHER -> grab

Event(op, args) ==
  /\ nEvents < MaxEvents
  /\ nEvents' = nEvents + 1
  /\ last' = [ op |-> op, args |-> args, pre |-> Snapshot ]
  /\ grab' = Grabbed(op, args)

Init ==
  /\ pieces = << >>
  /\ image = null
  /\ draggedIndex = null
  /\ offsetRef = [ x |-> Num(0), y |-> Num(0) ]
  /\ canvasSize = [ width |-> Num(0), height |-> Num(0) ]
  /\ scaleRef = Num(1)
  /\ nEvents = 0
  /\ nLoads = 0
  /\ sinceLoad = [ screenWidth |-> 0, wheeled |-> FALSE ]
  /\ grab = NoGrab
  /\ last = [ op |-> "init", args |-> << >>,
              pre |-> [ pieces |-> << >>, image |-> null, draggedIndex |-> null,
                        offsetRef |-> [ x |-> Num(0), y |-> Num(0) ],
                        canvasSize |-> [ width |-> Num(0), height |-> Num(0) ],
                        scaleRef |-> Num(1), grab |-> NoGrab ] ]

(***************************************************************************)
(* img.onload of the effect on imageSrc.                                   *)
(***************************************************************************)
ImgOnload(img, screenWidth, rnd) ==
  LET scale == RDiv(Num(screenWidth), img.width)
  IN  /\ nLoads < MaxLoads
      /\ nLoads' = nLoads + 1
      /\ sinceLoad' = [ screenWidth |-> screenWidth, wheeled |-> FALSE ]
      /\ Event("onload", <<screenWidth>>)
      /\ image' = Some(img)
      /\ scaleRef' = scale
      /\ canvasSize' = [ width |-> RMul(img.width, scale),
                         height |-> RMul(img.height, scale) ]
      /\ pieces' = InitializePieces(img, rnd)
      /\ UNCHANGED <<draggedIndex, offsetRef>>

\* variant: the offset taken in screen pixels, the division by the scale left out
HandleMouseDown_ScreenOffset(x, y) ==
  LET index == GetPieceAt(pieces, scaleRef, Num(x), Num(y))
  IN  /\ UNCHANGED <<nLoads, sinceLoad>>
      /\ Event("mouseDown", <<x, y>>)
      /\ IF index # null
         THEN LET piece == pieces[index[1] + 1]
              IN  /\ draggedIndex' = index
                  /\ offsetRef' = [ x |-> RSub(Num(x), piece.x),
                                    y |-> RSub(Num(y), piece.y) ]
         ELSE UNCHANGED <<draggedIndex, offsetRef>>
      /\ UNCHANGED <<pieces, image, canvasSize, scaleRef>>

HandleMouseDown(x, y) ==
  LET index == GetPieceAt(pieces, scaleRef, Num(x), Num(y))
  IN  /\ UNCHANGED <<nLoads, sinceLoad>>
      /\ Event("mouseDown", <<x, y>>)
      /\ IF index # null
         THEN LET piece == pieces[index[1] + 1]
              IN  /\ draggedIndex' = index
                  /\ offsetRef' = [ x |-> RSub(RDiv(Num(x), scaleRef), piece.x),
                                    y |-> RSub(RDiv(Num(y), scaleRef), piece.y) ]
         ELSE UNCHANGED <<draggedIndex, offsetRef>>
      /\ UNCHANGED <<pieces, image, canvasSize, scaleRef>>

\* variant: the dragged tile kept from leaving the image at the top and left
HandleMouseMove_Clamped(x, y) ==
  /\ UNCHANGED <<nLoads, sinceLoad>>
  /\ Event("mouseMove", <<x, y>>)
  /\ IF draggedIndex = null
     THEN UNCHANGED pieces
     ELSE pieces' = [ pieces EXCEPT
            ![draggedIndex[1] + 1].x =
               RMax(Num(0), RSub(RDiv(Num(x), scaleRef), offsetRef.x)),
            ![draggedIndex[1] + 1].y =
               RMax(Num(0), RSub(RDiv(Num(y), scaleRef), offsetRef.y)) ]
  /\ UNCHANGED <<image, draggedIndex, offsetRef, canvasSize, scaleRef>>

\* variant: the pointer taken in screen pixels, the division by the scale left out
HandleMouseMove_ScreenDelta(x, y) ==
  /\ UNCHANGED <<nLoads, sinceLoad>>
  /\ Event("mouseMove", <<x, y>>)
  /\ IF draggedIndex = null
     THEN UNCHANGED pieces
     ELSE pieces' = [ pieces EXCEPT
            ![draggedIndex[1] + 1].x = RSub(Num(x), offsetRef.x),
            ![draggedIndex[1] + 1].y = RSub(Num(y), offsetRef.y) ]
  /\ UNCHANGED <<image, draggedIndex, offsetRef, canvasSize, scaleRef>>

HandleMouseMove(x, y) ==
  /\ UNCHANGED <<nLoads, sinceLoad>>
  /\ Event("mouseMove", <<x, y>>)
  /\ IF draggedIndex = null
     THEN UNCHANGED pieces
     ELSE pieces' = [ pieces EXCEPT
            ![draggedIndex[1] + 1].x = RSub(RDiv(Num(x), scaleRef), offsetRef.x),
            ![draggedIndex[1] + 1].y = RSub(RDiv(Num(y), scaleRef), offsetRef.y) ]
  /\ UNCHANGED <<image, draggedIndex, offsetRef, canvasSize, scaleRef>>

\* variant: the drag ended only when the tile snapped
HandleMouseUp_HoldsUnlessSnapped ==
  /\ UNCHANGED <<nLoads, sinceLoad>>
  /\ Event("mouseUp", << >>)
  /\ IF draggedIndex = null
     THEN UNCHANGED <<pieces, draggedIndex>>
     ELSE LET piece == pieces[draggedIndex[1] + 1]
          IN  IF CloseEnough(piece, scaleRef)
              THEN /\ pieces' = [ pieces EXCEPT
                        ![draggedIndex[1] + 1].x = CorrectX(piece, scaleRef),
                        ![draggedIndex[1] + 1].y = CorrectY(piece, scaleRef) ]
                   /\ draggedIndex' = null
              ELSE UNCHANGED <<pieces, draggedIndex>>
  /\ UNCHANGED <<image, offsetRef, canvasSize, scaleRef>>

HandleMouseUp ==
  /\ UNCHANGED <<nLoads, sinceLoad>>
  /\ Event("mouseUp", << >>)
  /\ IF draggedIndex = null
     THEN UNCHANGED <<pieces, draggedIndex>>
     ELSE LET piece == pieces[draggedIndex[1] + 1]
          IN  /\ IF CloseEnough(piece, scaleRef)
                 THEN pieces' = [ pieces EXCEPT
                        ![draggedIndex[1] + 1].x = CorrectX(piece, scaleRef),
                        ![draggedIndex[1] + 1].y = CorrectY(piece, scaleRef) ]
                 ELSE UNCHANGED pieces
              /\ draggedIndex' = null
  /\ UNCHANGED <<image, offsetRef, canvasSize, scaleRef>>

\* variant: no guard on the image, whose dimensions then read as 0
FixPuzzle_NoGuard ==
  /\ UNCHANGED <<nLoads, sinceLoad>>
  /\ Event("fix", << >>)
  /\ pieces' = SolvedPieces(IF image = null
                            THEN [ width |-> Num(0), height |-> Num(0) ]
                            ELSE image[1])
  /\ UNCHANGED <<image, draggedIndex, offsetRef, canvasSize, scaleRef>>

FixPuzzle ==
  /\ UNCHANGED <<nLoads, sinceLoad>>
  /\ Event("fix", << >>)
  /\ IF image = null
     THEN UNCHANGED pieces
     ELSE pieces' = SolvedPieces(image[1])
  /\ UNCHANGED <<image, draggedIndex, offsetRef, canvasSize, scaleRef>>

MessUpPuzzle(rnd) ==
  /\ UNCHANGED <<nLoads, sinceLoad>>
  /\ Event("messUp", << >>)
  /\ IF image = null
     THEN UNCHANGED pieces
     ELSE pieces' = InitializePieces(image[1], rnd)
  /\ UNCHANGED <<image, draggedIndex, offsetRef, canvasSize, scaleRef>>

\* variant: zooming ends the drag in progress
HandleWheel_EndsDrag(deltaY) ==
  LET newScale == NewScale(scaleRef, deltaY)
  IN  /\ UNCHANGED nLoads
      /\ sinceLoad' = [ sinceLoad EXCEPT !.wheeled = TRUE ]
      /\ Event("wheel", <<deltaY>>)
      /\ scaleRef' = newScale
      /\ IF image # null
         THEN canvasSize' = [ width |-> RMul(image[1].width, newScale),
                              height |-> RMul(image[1].height, newScale) ]
         ELSE UNCHANGED canvasSize
      /\ draggedIndex' = null
      /\ UNCHANGED <<pieces, image, offsetRef>>

\* variant: the canvas resized with the scale as it was before the event
HandleWheel_StaleCanvas(deltaY) ==
  LET newScale == NewScale(scaleRef, deltaY)
  IN  /\ UNCHANGED nLoads
      /\ sinceLoad' = [ sinceLoad EXCEPT !.wheeled = TRUE ]
      /\ Event("wheel", <<deltaY>>)
      /\ scaleRef' = newScale
      /\ IF image # null
         THEN canvasSize' = [ width |-> RMul(image[1].width, scaleRef),
                              height |-> RMul(image[1].height, scaleRef) ]
         ELSE UNCHANGED canvasSize
      /\ UNCHANGED <<pieces, image, draggedIndex, offsetRef>>

HandleWheel(deltaY) ==
  LET newScale == NewScale(scaleRef, deltaY)
  IN  /\ UNCHANGED nLoads
      /\ sinceLoad' = [ sinceLoad EXCEPT !.wheeled = TRUE ]
      /\ Event("wheel", <<deltaY>>)
      /\ scaleRef' = newScale
      /\ IF image # null
         THEN canvasSize' = [ width |-> RMul(image[1].width, newScale),
                              height |-> RMul(image[1].height, newScale) ]
         ELSE UNCHANGED canvasSize
      /\ UNCHANGED <<pieces, image, draggedIndex, offsetRef>>

Next ==
  \/ \E img \in Images, sw \in ScreenWidths, rnd \in RandomStreams : ImgOnload(img, sw, rnd)
  \/ \E pt \in Points : HandleMouseDown(pt[1], pt[2])
  \/ \E pt \in Points : HandleMouseMove(pt[1], pt[2])
  \/ HandleMouseUp
  \/ FixPuzzle
  \/ \E rnd \in RandomStreams : MessUpPuzzle(rnd)
  \/ \E dy \in DeltaYs : HandleWheel(dy)

Spec == Init /\ [][Next]_vars

(***************************************************************************)
(* Notions the properties are stated in.                                   *)
(***************************************************************************)
Tiles == 0..(Len(pieces) - 1)
Pointer == { "mouseDown", "mouseMove", "mouseUp" }

\* the tile that was being dragged when the last event arrived
Dragged == last.pre.draggedIndex[1] + 1

\* a pointer-up arrived while a tile was being dragged
Released == last.op = "mouseUp" /\ last.pre.draggedIndex # null

\* the released tile was nearer than SNAP_THRESHOLD to (sourceX, sourceY)
ReleasedNear ==
  RLt(DistanceSq(last.pre.pieces[Dragged].x, last.pre.pieces[Dragged].y,
                 last.pre.pieces[Dragged].sx, last.pre.pieces[Dragged].sy),
      Num(SNAP_THRESHOLD * SNAP_THRESHOLD))

\* tile k (from 1) of ps is at (col * width, row * height)
InPlace(ps, k) ==
  /\ ps[k].x = RMul(Num((k - 1) % COLS), ps[k].width)
  /\ ps[k].y = RMul(Num((k - 1) \div COLS), ps[k].height)

IsSolved(ps) == Len(ps) = ROWS * COLS /\ \A k \in 1..Len(ps) : InPlace(ps, k)

\* C1: a tile released nearer than SNAP_THRESHOLD to its correct position
\* (col*width, row*height) = (sourceX, sourceY) ends exactly there.
C1_SnapsToCorrectPosition ==
  (Released /\ ReleasedNear) =>
     /\ InPlace(pieces, Dragged)
     /\ pieces[Dragged].x = pieces[Dragged].sx
     /\ pieces[Dragged].y = pieces[Dragged].sy

\* C2: a tile released at distance SNAP_THRESHOLD or more from its correct
\* position stays at the last dragged coordinate: pointer-up leaves the tile
\* sequence unchanged.
C2_FarReleaseKeepsPosition ==
  (Released /\ ~ReleasedNear) => pieces = last.pre.pieces

\* C3: with the image loaded, solve puts every tile (row, col) at
\* (col*width, row*height), which is its own (sourceX, sourceY), and solving
\* an already solved sequence yields the identical sequence.
C3_SolveIsExactAndIdempotent ==
  (last.op = "fix" /\ last.pre.image # null) =>
     /\ IsSolved(pieces)
     /\ \A k \in 1..Len(pieces) :
          pieces[k].x = pieces[k].sx /\ pieces[k].y = pieces[k].sy
     /\ IsSolved(last.pre.pieces) => pieces = last.pre.pieces

C3_SolvedFromScattered ==
  /\ last.op = "fix" /\ last.pre.image # null
  /\ ~IsSolved(last.pre.pieces)
  /\ last.pre.draggedIndex # null
  /\ IsSolved(pieces)

\* C4: once the image has loaded the tile sequence is the row-major grid of
\* ROWS*COLS tiles of imageWidth/COLS by imageHeight/ROWS, tile i cut at
\* ((i mod COLS)*width, (i div COLS)*height); pointer and wheel events keep
\* the sequence's length and order, and no pointer, wheel, solve or scramble
\* event changes a tile's source rectangle or dimensions.
C4_GridShape ==
  /\ image # null =>
       /\ Len(pieces) = ROWS * COLS
       /\ \A i \in Tiles :
            /\ pieces[i + 1].width = RDiv(image[1].width, Num(COLS))
            /\ pieces[i + 1].height = RDiv(image[1].height, Num(ROWS))
            /\ pieces[i + 1].sx = RMul(Num(i % COLS), pieces[i + 1].width)
            /\ pieces[i + 1].sy = RMul(Num(i \div COLS), pieces[i + 1].height)
  /\ (last.op \in Pointer \cup { "wheel", "fix", "messUp" }) =>
       /\ Len(pieces) = Len(last.pre.pieces)
       /\ \A i \in Tiles :
            /\ pieces[i + 1].sx = last.pre.pieces[i + 1].sx
            /\ pieces[i + 1].sy = last.pre.pieces[i + 1].sy
            /\ pieces[i + 1].width = last.pre.pieces[i + 1].width
            /\ pieces[i + 1].height = last.pre.pieces[i + 1].height

C4_GridKeptThroughDrag ==
  /\ last.op = "mouseMove" /\ last.pre.draggedIndex # null
  /\ pieces # last.pre.pieces
  /\ Len(pieces) = ROWS * COLS

\* C5: right after a scramble (the scramble operation or the rebuild at image
\* load) every tile has 0 <= posX < imageWidth - width and
\* 0 <= posY < imageHeight - height.
C5_ScrambleWithinBounds ==
  (last.op \in { "messUp", "onload" } /\ image # null) =>
     \A i \in Tiles :
        /\ RLe(Num(0), pieces[i + 1].x)
        /\ RLt(pieces[i + 1].x, RSub(image[1].width, pieces[i + 1].width))
        /\ RLe(Num(0), pieces[i + 1].y)
        /\ RLt(pieces[i + 1].y, RSub(image[1].height, pieces[i + 1].height))

C5_ScrambledOverlapping ==
  /\ last.op = "messUp" /\ image # null
  /\ pieces # last.pre.pieces
  /\ \E i, j \in Tiles :
        /\ i # j
        /\ pieces[i + 1].x = pieces[j + 1].x /\ pieces[i + 1].y = pieces[j + 1].y
  /\ \E i \in Tiles : pieces[i + 1].x # Num(0)

\* the scaled bounding box of tile i, both bounds included
InBox(i, pt) ==
  LET p == pieces[i + 1]
      left == RMul(p.x, scaleRef)
      top == RMul(p.y, scaleRef)
  IN  /\ RLe(left, Num(pt[1]))
      /\ RLe(Num(pt[1]), RAdd(left, RMul(p.width, scaleRef)))
      /\ RLe(top, Num(pt[2]))
      /\ RLe(Num(pt[2]), RAdd(top, RMul(p.height, scaleRef)))

Hits(pt) == { i \in Tiles : InBox(i, pt) }

\* C6: hit testing returns the highest index whose scaled bounding box
\* (bounds included) contains the point, and none exactly when no box does,
\* also for the empty tile sequence.
C6_HitTestTopmost ==
  \A pt \in Points :
     LET hit == GetPieceAt(pieces, scaleRef, Num(pt[1]), Num(pt[2]))
         hits == Hits(pt)
     IN  IF hits = { }
         THEN hit = null
         ELSE /\ hit # null
              /\ hit[1] \in hits
              /\ \A i \in hits : i <= hit[1]

C6_TopmostOfOverlapPicked ==
  /\ last.op = "mouseDown"
  /\ pieces = last.pre.pieces /\ scaleRef = last.pre.scaleRef
  /\ Cardinality(Hits(last.args)) >= 2
  /\ \E i \in Tiles : i \notin Hits(last.args)
  /\ draggedIndex # null
  /\ \A i \in Hits(last.args) : i <= draggedIndex[1]

InRange(scale) == RLe(Rat(1, 2), scale) /\ RLe(scale, Num(2))

\* C7: wheel-up adds 0.1 to the scale and wheel-down subtracts 0.1, clamped
\* to [0.5, 2.0]; wheel-up never decreases the scale and wheel-down never
\* increases it.
Clamp(scale) == RMax(Rat(1, 2), RMin(Num(2), scale))

C7_WheelStepsMonotone ==
  /\ (last.op = "wheel" /\ last.args[1] < 0) =>
        /\ scaleRef = Clamp(RAdd(last.pre.scaleRef, Rat(1, 10)))
        /\ RLe(last.pre.scaleRef, scaleRef)
  /\ (last.op = "wheel" /\ last.args[1] > 0) =>
        /\ scaleRef = Clamp(RSub(last.pre.scaleRef, Rat(1, 10)))
        /\ RLe(scaleRef, last.pre.scaleRef)

\* C8 as stated: whenever the image has loaded, the scale lies in [0.5, 2.0].
C8_ScaleAlwaysInRange == image # null => InRange(scaleRef)

\* C8: whenever the image has loaded, the scale lies in [0.5, 2.0] once a
\* wheel event has been handled since the latest image load, and until then
\* it is windowWidth / imageWidth, whatever that ratio is.
C8_ScaleInRangeAfterWheel ==
  image # null =>
     IF sinceLoad.wheeled
     THEN InRange(scaleRef)
     ELSE scaleRef = RDiv(Num(sinceLoad.screenWidth), image[1].width)

C8_WheelBroughtScaleIntoRange ==
  /\ image # null /\ last.op = "wheel"
  /\ ~InRange(last.pre.scaleRef)
  /\ InRange(scaleRef)

\* C9: a wheel event, idle or dragging, leaves the tile sequence,
\* draggedIndex and dragOffset unchanged; only the scale and the canvas size
\* may change.
C9_WheelKeepsTilesAndDrag ==
  last.op = "wheel" =>
     /\ pieces = last.pre.pieces
     /\ draggedIndex = last.pre.draggedIndex
     /\ offsetRef = last.pre.offsetRef
     /\ image = last.pre.image

C9_WheelWhileDragging ==
  /\ last.op = "wheel"
  /\ draggedIndex # null
  /\ scaleRef # last.pre.scaleRef
  /\ canvasSize # last.pre.canvasSize
  /\ \E i \in Tiles : pieces[i + 1].x # Num(0)

\* C10: while the image has not loaded, solve, scramble, pointer-down,
\* pointer-move and pointer-up change nothing: the tile sequence stays empty,
\* no drag starts, and scale, canvas size and dragOffset are unchanged.
C10_NoOpsBeforeLoad ==
  (last.pre.image = null /\ last.op \in Pointer \cup { "fix", "messUp" }) =>
     /\ pieces = << >>
     /\ draggedIndex = null
     /\ image = null
     /\ scaleRef = last.pre.scaleRef
     /\ canvasSize = last.pre.canvasSize
     /\ offsetRef = last.pre.offsetRef

C10_SolveBeforeLoad ==
  /\ last.pre.image = null /\ last.op = "fix"
  /\ scaleRef # Num(1)
  /\ pieces = << >>

\* the positions of all tiles are those the last event found
SamePositions ==
  /\ Len(pieces) = Len(last.pre.pieces)
  /\ \A i \in Tiles :
       /\ pieces[i + 1].x = last.pre.pieces[i + 1].x
       /\ pieces[i + 1].y = last.pre.pieces[i + 1].y

\* C11: no drag state persists across a rebuild of the tile sequence: after
\* a solve or scramble invoked during a drag, a pointer-move or pointer-up
\* that comes before any new pointer-down changes no tile's position.
C11_NoDragAcrossRebuild ==
  ( /\ last.op \in { "mouseMove", "mouseUp" }
    /\ last.pre.draggedIndex # null
    /\ last.pre.grab.rebuilt ) => SamePositions

\* the topmost tile whose box contains the point
Top(pt) == CHOOSE i \in Hits(pt) : \A j \in Hits(pt) : j <= i

\* C12: pointer-down at a point starts dragging tile i exactly when hit
\* testing at the point returns i, and then dragOffset = point/scale - pos of
\* tile i; when hit testing returns none, draggedIndex and dragOffset are
\* unchanged (an idle widget stays idle).  Pointer-down moves no tile.
C12_PointerDownStartsDrag ==
  last.op = "mouseDown" =>
     /\ pieces = last.pre.pieces
     /\ scaleRef = last.pre.scaleRef
     /\ IF Hits(last.args) = { }
        THEN /\ draggedIndex = last.pre.draggedIndex
             /\ offsetRef = last.pre.offsetRef
        ELSE LET tile == pieces[Top(last.args) + 1]
             IN  /\ draggedIndex = Some(Top(last.args))
                 /\ offsetRef.x = RSub(RDiv(Num(last.args[1]), scaleRef), tile.x)
                 /\ offsetRef.y = RSub(RDiv(Num(last.args[2]), scaleRef), tile.y)

C12_DragStartedOffOrigin ==
  /\ last.op = "mouseDown"
  /\ last.pre.draggedIndex = null
  /\ draggedIndex # null
  /\ scaleRef # Num(1)
  /\ offsetRef.x # Num(0) /\ offsetRef.y # Num(0)
  /\ offsetRef # last.pre.offsetRef

\* every tile but the dragged one is as the last event found it
OthersUntouched ==
  /\ Len(pieces) = Len(last.pre.pieces)
  /\ \A k \in 1..Len(pieces) : k # Dragged => pieces[k] = last.pre.pieces[k]

\* C13: pointer-move while dragging tile i puts it at point/scale - dragOffset
\* without clamping, stays in dragging(i), and leaves every other tile, the
\* source rectangle and dimensions of tile i, dragOffset and scale unchanged;
\* pointer-move while idle changes nothing.
C13_PointerMoveDragsOneTile ==
  last.op = "mouseMove" =>
     /\ draggedIndex = last.pre.draggedIndex
     /\ offsetRef = last.pre.offsetRef
     /\ scaleRef = last.pre.scaleRef
     /\ canvasSize = last.pre.canvasSize
     /\ image = last.pre.image
     /\ IF last.pre.draggedIndex = null
        THEN pieces = last.pre.pieces
        ELSE /\ OthersUntouched
             /\ pieces[Dragged].x =
                  RSub(RDiv(Num(last.args[1]), scaleRef), offsetRef.x)
             /\ pieces[Dragged].y =
                  RSub(RDiv(Num(last.args[2]), scaleRef), offsetRef.y)
             /\ pieces[Dragged].sx = last.pre.pieces[Dragged].sx
             /\ pieces[Dragged].sy = last.pre.pieces[Dragged].sy
             /\ pieces[Dragged].width = last.pre.pieces[Dragged].width
             /\ pieces[Dragged].height = last.pre.pieces[Dragged].height

C13_DraggedOutOfImage ==
  /\ last.op = "mouseMove"
  /\ last.pre.draggedIndex # null
  /\ pieces # last.pre.pieces
  /\ RLt(pieces[Dragged].x, Num(0))
  /\ RLt(pieces[Dragged].y, Num(0))

\* C14: pointer-up while dragging always leaves the widget idle, snapped or
\* not, and moves no tile other than the dragged one; pointer-up while idle
\* changes nothing.
C14_PointerUpEndsDrag ==
  last.op = "mouseUp" =>
     /\ draggedIndex = null
     /\ offsetRef = last.pre.offsetRef
     /\ scaleRef = last.pre.scaleRef
     /\ canvasSize = last.pre.canvasSize
     /\ image = last.pre.image
     /\ IF last.pre.draggedIndex = null
        THEN pieces = last.pre.pieces
        ELSE OthersUntouched

C14_ReleasedWithoutSnap ==
  /\ Released
  /\ draggedIndex = null
  /\ pieces = last.pre.pieces
  /\ ~CloseEnough(last.pre.pieces[Dragged], last.pre.scaleRef)
  /\ \E k \in 1..Len(pieces) : k # Dragged /\ ~InPlace(pieces, k)

\* C15: a click leaves a solved puzzle solved: from the solved state, at any
\* reachable scale, a pointer-down immediately followed by a pointer-up
\* leaves every tile at (col*width, row*height).
C15_ClickKeepsSolved ==
  [][ ( /\ last.op = "mouseDown"
        /\ IsSolved(pieces)
        /\ last'.op = "mouseUp" ) => IsSolved(pieces') ]_vars

\* C16: draggedIndex is none or an index of the current tile sequence
\* (0 <= draggedIndex < number of tiles) in every reachable state, also after
\* a solve, a scramble or an image load that arrives during a drag.
C16_DraggedIndexValid ==
  draggedIndex # null =>
     /\ 0 <= draggedIndex[1]
     /\ draggedIndex[1] < Len(pieces)

\* the last tile is still held after a rebuild and a reload during the drag
C16_DragHeldAcrossRebuilds ==
  /\ draggedIndex # null
  /\ draggedIndex[1] = Len(pieces) - 1
  /\ grab.rebuilt
  /\ grab.reloaded

\* the pointer-down that started the drag in progress has been followed by
\* no wheel event, no solve, no scramble and no load (which scrambles)
CleanDrag ==
  /\ last.pre.draggedIndex # null
  /\ ~last.pre.grab.wheeled
  /\ ~last.pre.grab.rebuilt
  /\ ~last.pre.grab.reloaded

\* C17: a drag translates the tile with the pointer: picked up at screen
\* point p while at P, and moved to screen point q with no wheel, solve or
\* scramble in between, the tile is at P + (q - p)/scale.
C17_DragTranslatesTile ==
  ( last.op = "mouseMove" /\ CleanDrag ) =>
     LET g == last.pre.grab
     IN  /\ pieces[Dragged].x =
              RAdd(g.pos[1], RDiv(Num(last.args[1] - g.pt[1]), scaleRef))
         /\ pieces[Dragged].y =
              RAdd(g.pos[2], RDiv(Num(last.args[2] - g.pt[2]), scaleRef))

\* a tile dragged to another screen point at a scale other than 1
C17_DraggedAwayScaled ==
  /\ last.op = "mouseMove"
  /\ CleanDrag
  /\ last.args # last.pre.grab.pt
  /\ scaleRef # Num(1)
  /\ <<pieces[Dragged].x, pieces[Dragged].y>> # last.pre.grab.pos

\* C18: once the image has loaded the canvas is the image at the current
\* scale: canvasWidth = imageWidth * scale and canvasHeight = imageHeight *
\* scale, after the load and after every wheel event.
C18_CanvasMatchesScale ==
  image # null =>
     canvasSize = [ width |-> RMul(image[1].width, scaleRef),
                    height |-> RMul(image[1].height, scaleRef) ]

\* a wheel event after the load that was clamped and resized the canvas
C18_ClampedWheelResized ==
  /\ last.op = "wheel"
  /\ image # null
  /\ scaleRef # RAdd(last.pre.scaleRef, ZoomAmount(last.args[1]))
  /\ canvasSize # last.pre.canvasSize

====
